---- MODULE Spec2Model ----
(***************************************************************************)
(* Booking coordination core of the ticketing backend: the token bucket    *)
(* (inventory counter), the bookings ledger, the seats table, the          *)
(* waitlist, the finalize stream with its worker and timeout tasks, the    *)
(* payment and refund callbacks and the reconciler.                        *)
(*                                                                         *)
(* Left out of the state: amounts of money (amount_paid, ticket price),    *)
(* timestamps and e-mail contents.  A payment callback is modelled for a   *)
(* sufficient amount only; with an insufficient amount the code returns    *)
(* before it writes anything.                                              *)
(***************************************************************************)
EXTENDS Integers, Sequences, FiniteSets, TLC

\* ------------------------------------------------------------------ bounds
\* number of BookingsService.Create calls in one behaviour of Spec and FairSpec
MaxCreate == 2
\* number of BookingsService.Create calls in one behaviour of ReplaySpec
MaxReplay == 3
\* payment callbacks in flight at a time, and Cancel calls in flight at a time
MaxPayCalls == 2
MaxCancelCalls == 2
MaxJoin == 3
MaxHolder == 2
MaxWorkers == 2

\* ---------------------------------------------------- events and the inputs
Events == {"e1", "e2"}
Users == {"u1", "u2"}
NoKey == "none"
Keys == {NoKey, "k1"}
SeatLists == {<<>>, <<"s1">>, <<"s1", "s2">>}
\* the authenticated user of the n-th call
Caller(n) == IF n = 2 THEN "u2" ELSE "u1"

\* attributes that AdminService.CreateEvent stores for the two events
Capacity(e) == IF e = "e1" THEN 2 ELSE 1
EventSeats(e) == IF e = "e1" THEN {"s1", "s2"} ELSE {"s1"}
MaximumTicketsPerBooking(e) == IF e = "e1" THEN 2 ELSE 1

VARIABLES
    tokens,        \* redis event_tokens:<event>: [present, val]
    reserved,      \* events.reserved
    eventCapacity, \* event_capacity rows: [present, capacity, reserved_count]
    bookings,      \* bookings rows, the id of a row is its index
    seats,         \* seats rows: seats[e][label] = [status, held_by_booking]
    waitlist,      \* waitlist rows, the id of a row is ToString(index)
    creates,       \* the BookingsService.Create calls: arguments and position
    response,      \* what the call that returned last was called with and returned
    finalizeMsg,   \* per booking: its finalize_booking message on the stream
    timeoutTask,   \* per booking: the goroutine of scheduleBookingTimeout
    timeoutRec,    \* per booking: the TimeoutBucket key <event>:<booking>
    reconRuns,     \* metrics.ReconciliationRunsTotal of the latest reconciler process
    reconFixes,    \* metrics.ReconciliationFixesTotal of the latest reconciler process
    payCalls,      \* payment callbacks between their read of the booking and their writes
    cancelCalls,   \* Cancel calls between their read of the booking and their return
    pool           \* the worker process: its context, the loop of Finalizer.Run, the slots taken

vars == <<tokens, reserved, eventCapacity, bookings, seats, waitlist, creates, response,
          finalizeMsg, timeoutTask, timeoutRec, reconRuns, reconFixes, payCalls, cancelCalls,
          pool>>

\* --------------------------------------------------------------- helpers
BookingIds == 1..Len(bookings)
Max(S) == CHOOSE x \in S : \A y \in S : y <= x

RECURSIVE SeqSum(_)
SeqSum(s) == IF s = <<>> THEN 0 ELSE Head(s) + SeqSum(Tail(s))

Range(s) == {s[i] : i \in 1..Len(s)}

\* a call that has returned leaves the calls in flight
RemoveAt(s, k) == SubSeq(s, 1, k - 1) \o SubSeq(s, k + 1, Len(s))

\* ------------------------------------------------------------ TokenBucket
\* tonumber(redis.call('GET', key) or '0'), and TokenBucket.Remaining
Remaining(tk, e) == IF tk[e].present THEN tk[e].val ELSE 0

\* a reserve script without the comparison: DECRBY whatever the value is
ReserveLuaUnchecked(tk, e, n) ==
    [ok |-> TRUE, tokens |-> [tk EXCEPT ![e] = [present |-> TRUE, val |-> Remaining(tk, e) - n]]]

\* the reserve script: one indivisible step of the store
ReserveLua(tk, e, n) ==
    LET current == Remaining(tk, e) IN
    IF current >= n
    THEN [ok |-> TRUE, tokens |-> [tk EXCEPT ![e] = [present |-> TRUE, val |-> current - n]]]
    ELSE [ok |-> FALSE, tokens |-> tk]

\* INCR key: a release of one token whatever the seat count
ReleaseOne(tk, e, n) == [tk EXCEPT ![e] = [present |-> TRUE, val |-> Remaining(tk, e) + 1]]

\* INCRBY key n
Release(tk, e, n) == [tk EXCEPT ![e] = [present |-> TRUE, val |-> Remaining(tk, e) + n]]

\* SET key capacity
InitTokens(e) == [present |-> TRUE, val |-> Capacity(e)]

\* ------------------------------------------------------ BookingsRepository
\* rows that SELECT ... WHERE idempotency_key = $1 matches
GetByIdempotency(bk, k) == {b \in 1..Len(bk) : bk[b].key = k}

\* a bookings table without the constraint
NoUniqueConstraint(bk, e, k) == FALSE

\* CONSTRAINT unique_event_idempotency UNIQUE (event_id, idempotency_key);
\* a NULL key never conflicts
UniqueViolation(bk, e, k) ==
    k # NoKey /\ \E b \in 1..Len(bk) : bk[b].event = e /\ bk[b].key = k

\* user_id UUID REFERENCES users(id)
UserForeignKeyOk(u) == u \in Users

\* INSERT INTO bookings ... 'pending' ... 'pending'
CreatePending(bk, u, e, k, S) ==
    IF UniqueViolation(bk, e, k) \/ ~UserForeignKeyOk(u)
    THEN [ok |-> FALSE, rows |-> bk]
    ELSE [ok |-> TRUE,
          rows |-> Append(bk, [user |-> u, event |-> e, status |-> "pending",
                               seats |-> S, key |-> k, payment_status |-> "pending"])]

UpdatePaymentStatus(bk, b, ps) == [bk EXCEPT ![b].payment_status = ps]

\* UPDATE bookings SET status = 'booked', seats, payment_status = 'paid'
\* WHERE id = $3 AND status = 'pending'
FinalizeRow(bk, b, S) ==
    IF bk[b].status = "pending"
    THEN [bk EXCEPT ![b].status = "booked", ![b].seats = S, ![b].payment_status = "paid"]
    ELSE bk

\* UPDATE seats SET status = 'booked', held_by_booking = $1 for each label
FinalizeSeats(st, e, b, S) ==
    [st EXCEPT ![e] = [l \in DOMAIN st[e] |->
        IF l \in Range(S) THEN [status |-> "booked", held_by_booking |-> b] ELSE st[e][l]]]

\* UPDATE seats SET status = 'available', held_by_booking = NULL for each label
CancelSeats(st, e, S) ==
    [st EXCEPT ![e] = [l \in DOMAIN st[e] |->
        IF l \in Range(S) THEN [status |-> "available", held_by_booking |-> 0] ELSE st[e][l]]]

\* ------------------------------------------------------- WaitlistRepository
ActiveEntries(wl, e) ==
    {i \in 1..Len(wl) : wl[i].event = e /\ ~wl[i].removed /\ ~wl[i].opted_out}

\* SELECT COALESCE(MAX(position), 0) + 1 ... WHERE opted_out = false
NextPosition(wl, e) ==
    IF ActiveEntries(wl, e) = {} THEN 1
    ELSE Max({wl[i].position : i \in ActiveEntries(wl, e)}) + 1

\* ORDER BY position ASC LIMIT 1: the candidates the query may return
NextActive(wl, e) ==
    {i \in ActiveEntries(wl, e) :
        \A j \in ActiveEntries(wl, e) : wl[i].position <= wl[j].position}

\* DELETE FROM waitlist WHERE id = $1
Remove(wl, i) == [wl EXCEPT ![i] = [event |-> "", user |-> "", position |-> 0,
                                    opted_out |-> FALSE, removed |-> TRUE]]

\* a call that has returned keeps no arguments; its response is in response
Done == [event |-> "", user |-> "", key |-> NoKey, seats |-> <<>>, pc |-> "done", position |-> 0]

NoResponse == [event |-> "", key |-> NoKey,
               code |-> 0, booking_id |-> 0, status |-> "", position |-> 0]

\* ------------------------------------------------------------------- Init
\* two events created by AdminService.CreateEvent, whose InitTokens result is
\* ignored: the counter key is set to the capacity, or is missing
Init ==
    /\ tokens \in [Events -> {[present |-> FALSE, val |-> 0]} \cup {InitTokens(e) : e \in Events}]
    /\ \A e \in Events : tokens[e].present => tokens[e] = InitTokens(e)
    /\ tokens["e1"].present
    /\ reserved = [e \in Events |-> 0]
    /\ eventCapacity = [e \in Events |-> [present |-> FALSE, capacity |-> 0, reserved_count |-> 0]]
    /\ bookings = <<>>
    /\ seats = [e \in Events |-> [l \in EventSeats(e) |-> [status |-> "available", held_by_booking |-> 0]]]
    /\ waitlist = <<>>
    /\ creates = <<>>
    /\ response = NoResponse
    /\ finalizeMsg = <<>>
    /\ timeoutTask = <<>>
    /\ timeoutRec = <<>>
    /\ reconRuns = 0
    /\ reconFixes = 0
    /\ payCalls = <<>>
    /\ cancelCalls = <<>>
    /\ pool = [ctx |-> "live", run |-> "polling", sem |-> 0]

\* ------------------------------------------------- BookingsService.Create
\* a row for a new booking in the three per-booking stores: the message is
\* on the stream when Publish succeeded
NewBookingMsg(published) == IF published THEN "queued" ELSE "none"

Returned(c, code, id, st, pos) ==
    [event |-> c.event, key |-> c.key,
     code |-> code, booking_id |-> id, status |-> st, position |-> pos]

\* events.Get, the ticket limit and the idempotency check
CreateBegin(e, k, S) ==
    /\ LET c == [event |-> e, user |-> Caller(Len(creates) + 1), key |-> k, seats |-> S, pc |-> "reserve",
                 position |-> 0]
       IN IF Len(S) > MaximumTicketsPerBooking(e)
          THEN /\ creates' = Append(creates, Done)
               /\ response' = Returned(c, 400, 0, "", 0)
          ELSE IF k # NoKey /\ GetByIdempotency(bookings, k) # {}
          THEN /\ creates' = Append(creates, Done)
               /\ \E b \in GetByIdempotency(bookings, k) :
                     response' = Returned(c, 200, b, bookings[b].status, 0)
          ELSE /\ creates' = Append(creates, c)
               /\ UNCHANGED response
    /\ UNCHANGED <<pool, tokens, reserved, eventCapacity, bookings, seats, waitlist,
                   finalizeMsg, timeoutTask, timeoutRec, reconRuns, reconFixes, payCalls, cancelCalls>>

\* s.tokens.Reserve(ctx, eventID, len(seats))
CreateReserve(i) ==
    /\ creates[i].pc = "reserve"
    /\ LET r == ReserveLua(tokens, creates[i].event, Len(creates[i].seats)) IN
       /\ tokens' = r.tokens
       /\ creates' = [creates EXCEPT ![i].pc = IF r.ok THEN "insert" ELSE "waitlist"]
    /\ UNCHANGED <<pool, reserved, eventCapacity, bookings, seats, waitlist, response,
                   finalizeMsg, timeoutTask, timeoutRec, reconRuns, reconFixes, payCalls, cancelCalls>>

\* s.repo.CreatePending and s.prod.Publish, whose error is only logged
CreateInsert(i) ==
    /\ creates[i].pc = "insert"
    /\ LET c == creates[i]
           r == CreatePending(bookings, c.user, c.event, c.key, c.seats)
       IN IF r.ok
          THEN /\ bookings' = r.rows
               /\ \E published \in BOOLEAN :
                     finalizeMsg' = Append(finalizeMsg, NewBookingMsg(published))
               /\ timeoutTask' = Append(timeoutTask, "none")
               /\ timeoutRec' = Append(timeoutRec, "absent")
               /\ response' = Returned(c, 202, Len(r.rows), "pending", 0)
          ELSE /\ response' = Returned(c, 500, 0, "", 0)
               /\ UNCHANGED <<bookings, finalizeMsg, timeoutTask, timeoutRec>>
    /\ creates' = [creates EXCEPT ![i] = Done]
    /\ UNCHANGED <<pool, tokens, reserved, eventCapacity, seats, waitlist, reconRuns, reconFixes, payCalls, cancelCalls>>

\* WaitlistRepository.Add, first statement: the next position
CreateWaitlistRead(i) ==
    /\ creates[i].pc = "waitlist"
    /\ creates' = [creates EXCEPT ![i].pc = "waitlist_insert",
                                  ![i].position = NextPosition(waitlist, creates[i].event)]
    /\ UNCHANGED <<pool, tokens, reserved, eventCapacity, bookings, seats, waitlist, response,
                   finalizeMsg, timeoutTask, timeoutRec, reconRuns, reconFixes, payCalls, cancelCalls>>

\* WaitlistRepository.Add, second statement: the insert
CreateWaitlistInsert(i) ==
    /\ creates[i].pc = "waitlist_insert"
    /\ LET c == creates[i] IN
       /\ waitlist' = Append(waitlist, [event |-> c.event, user |-> c.user,
                                        position |-> c.position, opted_out |-> FALSE,
                                        removed |-> FALSE])
       /\ creates' = [creates EXCEPT ![i] = Done]
       /\ response' = Returned(c, 200, 0, "waitlisted", c.position)
    /\ UNCHANGED <<pool, tokens, reserved, eventCapacity, bookings, seats,
                   finalizeMsg, timeoutTask, timeoutRec, reconRuns, reconFixes, payCalls, cancelCalls>>

\* ------------------------------------------------------- payment callbacks
\* the seats ProcessBookingPayment passes on: the stored list, or the fallback
PaymentSeats(S) == IF Len(S) = 0 THEN <<"seat1">> ELSE S

\* PaymentService.ProcessBookingPayment for a pending booking:
\* UpdatePaymentStatus(paid), then BookingsRepository.FinalizeBooking
ProcessBookingPayment(b) ==
    /\ b \in BookingIds
    /\ bookings[b].status = "pending"
    /\ LET S == PaymentSeats(bookings[b].seats)
           e == bookings[b].event
       IN /\ bookings' = FinalizeRow(UpdatePaymentStatus(bookings, b, "paid"), b, S)
          /\ seats' = FinalizeSeats(seats, e, b, S)
          /\ reserved' = [reserved EXCEPT ![e] = @ + 1]
    /\ UNCHANGED <<pool, tokens, eventCapacity, waitlist, creates, response,
                   finalizeMsg, timeoutTask, timeoutRec, reconRuns, reconFixes, payCalls, cancelCalls>>

\* PaymentService.ProcessCancellationRefund
ProcessCancellationRefund(b) ==
    /\ b \in BookingIds
    /\ bookings[b].payment_status = "paid"
    /\ bookings' = UpdatePaymentStatus(bookings, b, "refunded")
    /\ UNCHANGED <<pool, tokens, reserved, eventCapacity, seats, waitlist, creates, response,
                   finalizeMsg, timeoutTask, timeoutRec, reconRuns, reconFixes, payCalls, cancelCalls>>

\* ------------------------------------------------- BookingsService.Cancel
\* BookingsRepository.CancelBookingTx: the row after the transaction, and
\* what it does to events.reserved and to the seats when the row was booked
CancelRow(bk, b) == [bk EXCEPT ![b].status = "cancelled"]

\* len(seats), or the fallback of 1
SeatCount(S) == IF Len(S) = 0 THEN 1 ELSE Len(S)

\* BookingsService.Cancel: the transaction, then for a booked row the token
\* release and the promotion of the next waitlist entry
Cancel(b) ==
    /\ b \in BookingIds
    /\ bookings[b].status \in {"pending", "booked"}
    /\ LET e == bookings[b].event
           S == bookings[b].seats
           wasBooked == bookings[b].status = "booked"
           next == NextActive(waitlist, e)
       IN IF ~wasBooked
          THEN /\ bookings' = CancelRow(bookings, b)
               /\ UNCHANGED <<tokens, reserved, seats, waitlist,
                              finalizeMsg, timeoutTask, timeoutRec>>
          ELSE /\ reserved' = [reserved EXCEPT ![e] = @ - 1]
               /\ seats' = CancelSeats(seats, e, S)
               /\ tokens' = Release(tokens, e, SeatCount(S))
               /\ IF next = {}
                  THEN /\ bookings' = CancelRow(bookings, b)
                       /\ UNCHANGED <<waitlist, finalizeMsg, timeoutTask, timeoutRec>>
                  ELSE \E w \in next :
                       LET r == CreatePending(CancelRow(bookings, b), waitlist[w].user, e, NoKey, S)
                       IN /\ bookings' = r.rows
                          /\ IF r.ok
                             THEN /\ \E published \in BOOLEAN :
                                        finalizeMsg' = Append(finalizeMsg, NewBookingMsg(published))
                                  /\ timeoutTask' = Append(timeoutTask, "none")
                                  /\ timeoutRec' = Append(timeoutRec, "absent")
                                  /\ waitlist' = Remove(waitlist, w)
                             ELSE UNCHANGED <<waitlist, finalizeMsg, timeoutTask, timeoutRec>>
    /\ UNCHANGED <<pool, eventCapacity, creates, response, reconRuns, reconFixes, payCalls, cancelCalls>>

\* ------------------------------------------------------- finalize worker
\* Finalizer.Run with HandleBookingFinalization: the payment request e-mail
\* is sent, the timeout task started (it sets the timeout record to
\* processing and sleeps) and the message committed; when the e-mail fails
\* the message goes to the dead-letter topic
HandleBookingFinalization(b) ==
    /\ b \in BookingIds
    /\ finalizeMsg[b] = "queued"
    /\ \E mailed \in BOOLEAN :
          IF mailed
          THEN /\ finalizeMsg' = [finalizeMsg EXCEPT ![b] = "committed"]
               /\ timeoutTask' = [timeoutTask EXCEPT ![b] = "sleeping"]
               /\ timeoutRec' = [timeoutRec EXCEPT ![b] = "processing"]
          ELSE /\ finalizeMsg' = [finalizeMsg EXCEPT ![b] = "dlq"]
               /\ UNCHANGED <<timeoutTask, timeoutRec>>
    /\ UNCHANGED <<pool, tokens, reserved, eventCapacity, bookings, seats, waitlist, creates, response,
                   reconRuns, reconFixes, payCalls, cancelCalls>>

\* a read that takes a missing record for processed
GetBookingMissingAsProcessed(rec, b) == IF rec[b] = "absent" THEN "processed" ELSE rec[b]

\* TimeoutBucket.GetBooking: a missing key reads as processing
GetBooking(rec, b) == IF rec[b] = "absent" THEN "processing" ELSE rec[b]

\* the user id HandleBookingTimeout passes to CreatePending: the first value
\* NextActive returns, which is the id of the waitlist row
PromotedUserOnTimeout(w) == ToString(w)

\* HandleBookingTimeout for a booking that is still pending: CancelBookingTx,
\* then the attempt to create a pending booking for the next waitlist entry
HandleBookingTimeout(bk, wl, b) ==
    IF bk[b].status # "pending" THEN bk
    ELSE IF NextActive(wl, bk[b].event) = {} THEN CancelRow(bk, b)
    ELSE LET w == CHOOSE w \in NextActive(wl, bk[b].event) : TRUE
         IN CreatePending(CancelRow(bk, b), PromotedUserOnTimeout(w),
                          bk[b].event, NoKey, bk[b].seats).rows

\* scheduleBookingTimeout, after the sleep: the record is read, the timeout
\* handled unless it reads processed, and the record deleted
TimeoutFire(b) ==
    /\ b \in BookingIds
    /\ timeoutTask[b] = "sleeping"
    /\ bookings' = IF GetBooking(timeoutRec, b) # "processed"
                   THEN HandleBookingTimeout(bookings, waitlist, b)
                   ELSE bookings
    /\ Len(bookings') = Len(bookings)
    /\ timeoutRec' = [timeoutRec EXCEPT ![b] = "absent"]
    /\ timeoutTask' = [timeoutTask EXCEPT ![b] = "done"]
    /\ UNCHANGED <<pool, tokens, reserved, eventCapacity, seats, waitlist, creates, response,
                   finalizeMsg, reconRuns, reconFixes, payCalls, cancelCalls>>

\* ------------------------------------------------------------- reconciler
\* for i := 0; i < -diff; i++ { tokens.Reserve(ctx, id, 1) }
RECURSIVE ConsumeTokens(_, _, _)
ConsumeTokens(tk, e, k) ==
    IF k <= 0 THEN tk ELSE ConsumeTokens(ReserveLua(tk, e, 1).tokens, e, k - 1)

\* INSERT INTO event_capacity for the events that have no row
EnsureEventCapacity(ec) ==
    [e \in Events |-> IF ec[e].present THEN ec[e]
                      ELSE [present |-> TRUE, capacity |-> Capacity(e),
                            reserved_count |-> reserved[e]]]

Desired(ec, e) == ec[e].capacity - ec[e].reserved_count

\* the events of one run whose counter differs from the desired value
ToFix(tk, ec) == {e \in Events : ec[e].present /\ Remaining(tk, e) # Desired(ec, e)}

\* one event of the second loop of the run
ReconcileEvent(tk, ec, e) ==
    LET diff == Desired(ec, e) - Remaining(tk, e) IN
    IF diff > 0 THEN Release(tk, e, diff)
    ELSE IF diff < 0 THEN ConsumeTokens(tk, e, -diff)
    ELSE tk

RECURSIVE ReconcileAll(_, _, _)
ReconcileAll(tk, ec, todo) ==
    IF todo = {} THEN tk
    ELSE LET e == CHOOSE e \in todo : TRUE
         IN ReconcileAll(ReconcileEvent(tk, ec, e), ec, todo \ {e})

\* one run of cmd/reconcile: a process of its own, whose two counters start
\* at zero
Reconcile ==
    /\ reconRuns' = 1
    /\ eventCapacity' = EnsureEventCapacity(eventCapacity)
    /\ tokens' = ReconcileAll(tokens, eventCapacity', Events)
    /\ reconFixes' = Cardinality(ToFix(tokens, eventCapacity'))
    /\ UNCHANGED <<pool, reserved, bookings, seats, waitlist, creates, response,
                   finalizeMsg, timeoutTask, timeoutRec, payCalls, cancelCalls>>

\* ------------------------------------- the callbacks and Cancel, step by step
\* ProcessBookingPayment up to its check: GetByID, and the status is pending
PaymentRead(b) ==
    /\ b \in BookingIds
    /\ Len(payCalls) < MaxPayCalls
    /\ bookings[b].status = "pending"
    /\ payCalls' = Append(payCalls, b)
    /\ UNCHANGED <<pool, tokens, reserved, eventCapacity, bookings, seats, waitlist, creates, response,
                   finalizeMsg, timeoutTask, timeoutRec, reconRuns, reconFixes, cancelCalls>>

\* ProcessBookingPayment after its check: UpdatePaymentStatus(paid), then
\* BookingsRepository.FinalizeBooking, whatever the status has become
PaymentWrite(k) ==
    /\ k \in 1..Len(payCalls)
    /\ LET b == payCalls[k]
           S == PaymentSeats(bookings[b].seats)
           e == bookings[b].event
       IN /\ bookings' = FinalizeRow(UpdatePaymentStatus(bookings, b, "paid"), b, S)
          /\ seats' = FinalizeSeats(seats, e, b, S)
          /\ reserved' = [reserved EXCEPT ![e] = @ + 1]
    /\ payCalls' = RemoveAt(payCalls, k)
    /\ UNCHANGED <<pool, tokens, eventCapacity, waitlist, creates, response,
                   finalizeMsg, timeoutTask, timeoutRec, reconRuns, reconFixes, cancelCalls>>

\* CancelBookingTx up to its SELECT, which takes no lock: the status it saw
CancelRead(b) ==
    /\ b \in BookingIds
    /\ Len(cancelCalls) < MaxCancelCalls
    /\ bookings[b].status \in {"pending", "booked"}
    /\ cancelCalls' = Append(cancelCalls,
           [booking |-> b, wasBooked |-> bookings[b].status = "booked",
            seats |-> bookings[b].seats, pc |-> "tx", entry |-> 0, user |-> ""])
    /\ UNCHANGED <<pool, tokens, reserved, eventCapacity, bookings, seats, waitlist, creates, response,
                   finalizeMsg, timeoutTask, timeoutRec, reconRuns, reconFixes, payCalls>>

\* the rest of CancelBookingTx and, when it returned wasBooked, the Release and
\* the NextActive of BookingsService.Cancel
CancelWrite(k) ==
    /\ k \in 1..Len(cancelCalls)
    /\ cancelCalls[k].pc = "tx"
    /\ LET c == cancelCalls[k]
           b == c.booking
           e == bookings[b].event
           next == NextActive(waitlist, e)
       IN /\ bookings' = CancelRow(bookings, b)
          /\ IF ~c.wasBooked
             THEN /\ cancelCalls' = RemoveAt(cancelCalls, k)
                  /\ UNCHANGED <<tokens, reserved, seats>>
             ELSE /\ reserved' = [reserved EXCEPT ![e] = @ - 1]
                  /\ seats' = CancelSeats(seats, e, c.seats)
                  /\ tokens' = Release(tokens, e, SeatCount(c.seats))
                  /\ IF next = {}
                     THEN cancelCalls' = RemoveAt(cancelCalls, k)
                     ELSE \E w \in next :
                             cancelCalls' = [cancelCalls EXCEPT
                                 ![k].pc = "promote", ![k].entry = w, ![k].user = waitlist[w].user]
    /\ UNCHANGED <<pool, eventCapacity, waitlist, creates, response,
                   finalizeMsg, timeoutTask, timeoutRec, reconRuns, reconFixes, payCalls>>

\* the promotion of BookingsService.Cancel: CreatePending for the user that
\* NextActive returned, Publish, and Remove of the entry
CancelPromote(k) ==
    /\ k \in 1..Len(cancelCalls)
    /\ cancelCalls[k].pc = "promote"
    /\ LET c == cancelCalls[k]
           r == CreatePending(bookings, c.user, bookings[c.booking].event, NoKey, c.seats)
       IN /\ bookings' = r.rows
          /\ IF r.ok
             THEN /\ \E published \in BOOLEAN :
                        finalizeMsg' = Append(finalizeMsg, NewBookingMsg(published))
                  /\ timeoutTask' = Append(timeoutTask, "none")
                  /\ timeoutRec' = Append(timeoutRec, "absent")
                  /\ waitlist' = Remove(waitlist, c.entry)
             ELSE UNCHANGED <<waitlist, finalizeMsg, timeoutTask, timeoutRec>>
    /\ cancelCalls' = RemoveAt(cancelCalls, k)
    /\ UNCHANGED <<pool, tokens, reserved, eventCapacity, seats, creates, response,
                   reconRuns, reconFixes, payCalls>>

\* ------------------------------------------------------------------- Next
\* a call arrives, while the behaviour has calls left
CreateCall == Len(creates) < MaxCreate /\ \E e \in Events, k \in Keys, S \in SeatLists : CreateBegin(e, k, S)
ReplayCall == Len(creates) < MaxReplay /\ \E e \in Events, k \in Keys, S \in SeatLists : CreateBegin(e, k, S)
\* a call without a key for the event with the single seat
RaceCall == Len(creates) < MaxCreate /\ \E S \in SeatLists : CreateBegin("e2", NoKey, S)

Next ==
    \/ CreateCall
    \/ \E i \in 1..Len(creates) : CreateReserve(i)
    \/ \E i \in 1..Len(creates) : CreateInsert(i)
    \/ \E i \in 1..Len(creates) : CreateWaitlistRead(i)
    \/ \E i \in 1..Len(creates) : CreateWaitlistInsert(i)
    \/ \E b \in BookingIds : ProcessBookingPayment(b)
    \/ \E b \in BookingIds : ProcessCancellationRefund(b)
    \/ \E b \in BookingIds : Cancel(b)
    \/ \E b \in BookingIds : HandleBookingFinalization(b)
    \/ \E b \in BookingIds : TimeoutFire(b)
    \/ Reconcile

Spec == Init /\ [][Next]_vars

\* the booking intake and the worker alone, with the scheduling the worker
\* has: Finalizer.Run polls the stream for as long as the process lives, and
\* a started timeout goroutine wakes up when its sleep ends
FairNext ==
    \/ CreateCall
    \/ \E i \in 1..Len(creates) : CreateReserve(i)
    \/ \E i \in 1..Len(creates) : CreateInsert(i)
    \/ \E i \in 1..Len(creates) : CreateWaitlistRead(i)
    \/ \E i \in 1..Len(creates) : CreateWaitlistInsert(i)
    \/ \E b \in BookingIds : HandleBookingFinalization(b)
    \/ \E b \in BookingIds : TimeoutFire(b)

FairSpec ==
    /\ Init
    /\ [][FairNext]_vars
    /\ WF_vars(\E b \in BookingIds : HandleBookingFinalization(b))
    /\ WF_vars(\E b \in BookingIds : TimeoutFire(b))

\* the worker process stops and is started again: the goroutines that sleep
\* in scheduleBookingTimeout are gone, the timeout records and the committed
\* offsets stay, and cmd/worker starts Finalizer.Run and nothing else
WorkerRestart ==
    /\ \E b \in BookingIds : timeoutTask[b] = "sleeping"
    /\ timeoutTask' = [b \in BookingIds |->
                          IF timeoutTask[b] = "sleeping" THEN "lost" ELSE timeoutTask[b]]
    /\ UNCHANGED <<pool, tokens, reserved, eventCapacity, bookings, seats, waitlist, creates, response,
                   finalizeMsg, timeoutRec, reconRuns, reconFixes, payCalls, cancelCalls>>

\* the booking intake and the worker with its scheduling, and restarts of the
\* worker process
RestartNext ==
    \/ FairNext
    \/ WorkerRestart

RestartSpec ==
    /\ Init
    /\ [][RestartNext]_vars
    /\ WF_vars(\E b \in BookingIds : HandleBookingFinalization(b))
    /\ WF_vars(\E b \in BookingIds : TimeoutFire(b))

\* the timeout record of a sleeping task as another client of the store may
\* leave it: GetBooking returns whatever value the key holds, and
\* scheduleBookingTimeout compares it with processed
RecordSetProcessed(b) ==
    /\ b \in BookingIds
    /\ timeoutTask[b] = "sleeping"
    /\ timeoutRec[b] = "processing"
    /\ timeoutRec' = [timeoutRec EXCEPT ![b] = "processed"]
    /\ UNCHANGED <<pool, tokens, reserved, eventCapacity, bookings, seats, waitlist, creates, response,
                   finalizeMsg, timeoutTask, reconRuns, reconFixes, payCalls, cancelCalls>>

\* the key is gone from the store when the task wakes up: GetBooking maps
\* redis.Nil to processing
RecordLost(b) ==
    /\ b \in BookingIds
    /\ timeoutTask[b] = "sleeping"
    /\ timeoutRec[b] = "processing"
    /\ timeoutRec' = [timeoutRec EXCEPT ![b] = "absent"]
    /\ UNCHANGED <<pool, tokens, reserved, eventCapacity, bookings, seats, waitlist, creates, response,
                   finalizeMsg, timeoutTask, reconRuns, reconFixes, payCalls, cancelCalls>>

\* the booking intake and the worker, with a timeout store whose records
\* change while the tasks sleep
TimeoutTaskNext ==
    \/ FairNext
    \/ \E b \in BookingIds : RecordSetProcessed(b)
    \/ \E b \in BookingIds : RecordLost(b)

TimeoutTaskSpec == Init /\ [][TimeoutTaskNext]_vars

\* the writers of the token counters: the booking intake, the payment
\* callback, Cancel and the reconciler
LedgerNext ==
    \/ CreateCall
    \/ \E i \in 1..Len(creates) : CreateReserve(i)
    \/ \E i \in 1..Len(creates) : CreateInsert(i)
    \/ \E i \in 1..Len(creates) : CreateWaitlistRead(i)
    \/ \E i \in 1..Len(creates) : CreateWaitlistInsert(i)
    \/ \E b \in BookingIds : ProcessBookingPayment(b)
    \/ \E b \in BookingIds : Cancel(b)
    \/ Reconcile

LedgerSpec == Init /\ [][LedgerNext]_vars

\* --------------------------------------------------------- SeatsRepository
\* HoldSeats: for each label, UPDATE seats SET status = 'held',
\* held_by_booking = $1 ... AND status = 'available'; the rows affected are
\* not counted
HoldSeats(st, e, L, b) ==
    [st EXCEPT ![e] = [l \in DOMAIN st[e] |->
        IF l \in Range(L) /\ st[e][l].status = "available"
        THEN [status |-> "held", held_by_booking |-> b] ELSE st[e][l]]]

\* BookSeats: for each label, UPDATE seats SET status = 'booked',
\* held_by_booking = $1 ... AND status = 'held'
BookSeats(st, e, L, b) ==
    [st EXCEPT ![e] = [l \in DOMAIN st[e] |->
        IF l \in Range(L) /\ st[e][l].status = "held"
        THEN [status |-> "booked", held_by_booking |-> b] ELSE st[e][l]]]

\* ReleaseSeats: for each label, UPDATE seats SET status = 'available',
\* held_by_booking = NULL
ReleaseSeats(st, e, L) ==
    [st EXCEPT ![e] = [l \in DOMAIN st[e] |->
        IF l \in Range(L) THEN [status |-> "available", held_by_booking |-> 0] ELSE st[e][l]]]

HoldSeatsCall(e, L, b) ==
    /\ seats' = HoldSeats(seats, e, L, b)
    /\ UNCHANGED <<pool, tokens, reserved, eventCapacity, bookings, waitlist, creates, response,
                   finalizeMsg, timeoutTask, timeoutRec, reconRuns, reconFixes, payCalls, cancelCalls>>

BookSeatsCall(e, L, b) ==
    /\ seats' = BookSeats(seats, e, L, b)
    /\ UNCHANGED <<pool, tokens, reserved, eventCapacity, bookings, waitlist, creates, response,
                   finalizeMsg, timeoutTask, timeoutRec, reconRuns, reconFixes, payCalls, cancelCalls>>

ReleaseSeatsCall(e, L) ==
    /\ seats' = ReleaseSeats(seats, e, L)
    /\ UNCHANGED <<pool, tokens, reserved, eventCapacity, bookings, waitlist, creates, response,
                   finalizeMsg, timeoutTask, timeoutRec, reconRuns, reconFixes, payCalls, cancelCalls>>

\* the seat transitions of SeatsRepository, called for the bookings
\* 1..MaxHolder over the seat lists
SeatsNext ==
    \/ \E e \in Events, L \in SeatLists, b \in 1..MaxHolder : HoldSeatsCall(e, L, b)
    \/ \E e \in Events, L \in SeatLists, b \in 1..MaxHolder : BookSeatsCall(e, L, b)
    \/ \E e \in Events, L \in SeatLists : ReleaseSeatsCall(e, L)

SeatsSpec == Init /\ [][SeatsNext]_vars

\* ------------------------------------------------------------ Finalizer.Run
\* the messages whose handler goroutine runs
Handling(msgs) == {b \in DOMAIN msgs : msgs[b] = "handling"}

\* a send on a channel without a limit: it never blocks
SemUnbounded(sem) == TRUE

\* sem <- struct{}{} on make(chan struct{}, workerCount) goes through while
\* the channel holds fewer than workerCount values
SemFree(sem) == sem < MaxWorkers

\* f.c.Fetch(ctx) in the default branch of the select: it hands out a message
\* of the stream while the context is live
Fetch(b) ==
    /\ b \in BookingIds
    /\ pool.ctx = "live"
    /\ pool.run = "polling"
    /\ finalizeMsg[b] = "queued"
    /\ finalizeMsg' = [finalizeMsg EXCEPT ![b] = "fetched"]
    /\ pool' = [pool EXCEPT !.run = "acquire"]
    /\ UNCHANGED <<tokens, reserved, eventCapacity, bookings, seats, waitlist, creates, response,
                   timeoutTask, timeoutRec, reconRuns, reconFixes, payCalls, cancelCalls>>

\* sem <- struct{}{} and go func(m): the loop waits for a slot, whatever the
\* context, starts the handler and goes back to the select
Acquire(b) ==
    /\ b \in BookingIds
    /\ pool.run = "acquire"
    /\ finalizeMsg[b] = "fetched"
    /\ SemFree(pool.sem)
    /\ finalizeMsg' = [finalizeMsg EXCEPT ![b] = "handling"]
    /\ pool' = [pool EXCEPT !.run = "polling", !.sem = @ + 1]
    /\ UNCHANGED <<tokens, reserved, eventCapacity, bookings, seats, waitlist, creates, response,
                   timeoutTask, timeoutRec, reconRuns, reconFixes, payCalls, cancelCalls>>

\* the handler goroutine: handleMessage, then Commit or the dead-letter
\* Publish, then the deferred <-sem. scheduleBookingTimeout starts the wait
\* in a goroutine of its own and returns. Under a cancelled context the calls
\* that take the context fail, and the message may end neither committed nor
\* in the dead-letter topic
HandlerRun(b) ==
    /\ b \in BookingIds
    /\ finalizeMsg[b] = "handling"
    /\ \E outcome \in {"committed", "dlq"} \cup (IF pool.ctx = "cancelled" THEN {"queued"} ELSE {}) :
          /\ finalizeMsg' = [finalizeMsg EXCEPT ![b] = outcome]
          /\ IF outcome = "committed"
             THEN /\ timeoutTask' = [timeoutTask EXCEPT ![b] = "sleeping"]
                  /\ timeoutRec' = [timeoutRec EXCEPT ![b] = "processing"]
             ELSE UNCHANGED <<timeoutTask, timeoutRec>>
    /\ pool' = [pool EXCEPT !.sem = @ - 1]
    /\ UNCHANGED <<tokens, reserved, eventCapacity, bookings, seats, waitlist, creates, response,
                   reconRuns, reconFixes, payCalls, cancelCalls>>

\* SIGINT or SIGTERM: the context of signal.NotifyContext is cancelled
Shutdown ==
    /\ pool.ctx = "live"
    /\ pool.run # "exited"
    /\ pool' = [pool EXCEPT !.ctx = "cancelled"]
    /\ UNCHANGED <<tokens, reserved, eventCapacity, bookings, seats, waitlist, creates, response,
                   finalizeMsg, timeoutTask, timeoutRec, reconRuns, reconFixes, payCalls, cancelCalls>>

\* case <-ctx.Done(): return ctx.Err()
RunReturn ==
    /\ pool.ctx = "cancelled"
    /\ pool.run = "polling"
    /\ pool' = [pool EXCEPT !.run = "returned"]
    /\ UNCHANGED <<tokens, reserved, eventCapacity, bookings, seats, waitlist, creates, response,
                   finalizeMsg, timeoutTask, timeoutRec, reconRuns, reconFixes, payCalls, cancelCalls>>

\* main after f.Run(ctx): <-ctx.Done(), the log line and the return. The
\* goroutines of the process end with it: a message in a handler stays on the
\* stream without a commit, a sleeping timeout task is gone
WorkerExit ==
    /\ pool.run = "returned"
    /\ pool' = [pool EXCEPT !.run = "exited", !.sem = 0]
    /\ finalizeMsg' = [b \in DOMAIN finalizeMsg |->
                          IF finalizeMsg[b] = "handling" THEN "queued" ELSE finalizeMsg[b]]
    /\ timeoutTask' = [b \in DOMAIN timeoutTask |->
                          IF timeoutTask[b] = "sleeping" THEN "lost" ELSE timeoutTask[b]]
    /\ UNCHANGED <<tokens, reserved, eventCapacity, bookings, seats, waitlist, creates, response,
                   timeoutRec, reconRuns, reconFixes, payCalls, cancelCalls>>

\* calls without a key, for the messages of the pool
PoolCall == Len(creates) < MaxJoin /\ \E e \in Events, S \in SeatLists : CreateBegin(e, NoKey, S)

\* the booking intake and the worker process with its pool of handlers
PoolNext ==
    \/ PoolCall
    \/ \E i \in 1..Len(creates) : CreateReserve(i)
    \/ \E i \in 1..Len(creates) : CreateInsert(i)
    \/ \E i \in 1..Len(creates) : CreateWaitlistRead(i)
    \/ \E i \in 1..Len(creates) : CreateWaitlistInsert(i)
    \/ \E b \in BookingIds : Fetch(b)
    \/ \E b \in BookingIds : Acquire(b)
    \/ \E b \in BookingIds : HandlerRun(b)
    \/ Shutdown
    \/ RunReturn
    \/ WorkerExit

PoolSpec == Init /\ [][PoolNext]_vars

\* the booking intake alone, with one more call
ReplayNext ==
    \/ ReplayCall
    \/ \E i \in 1..Len(creates) : CreateReserve(i)
    \/ \E i \in 1..Len(creates) : CreateInsert(i)
    \/ \E i \in 1..Len(creates) : CreateWaitlistRead(i)
    \/ \E i \in 1..Len(creates) : CreateWaitlistInsert(i)

ReplaySpec == Init /\ [][ReplayNext]_vars

\* three calls without a key for the event with the single seat, with the
\* payment callback and Cancel: a booking that is booked and cancelled while
\* two users wait
PromotionCall == Len(creates) < MaxJoin /\ \E S \in SeatLists : CreateBegin("e2", NoKey, S)

PromotionNext ==
    \/ PromotionCall
    \/ \E i \in 1..Len(creates) : CreateReserve(i)
    \/ \E i \in 1..Len(creates) : CreateInsert(i)
    \/ \E i \in 1..Len(creates) : CreateWaitlistRead(i)
    \/ \E i \in 1..Len(creates) : CreateWaitlistInsert(i)
    \/ \E b \in BookingIds : ProcessBookingPayment(b)
    \/ \E b \in BookingIds : Cancel(b)

PromotionSpec == Init /\ [][PromotionNext]_vars

\* a Cancel call for a booking that no other Cancel call is working on
SerialCancelRead(b) ==
    /\ \A j \in 1..Len(cancelCalls) : cancelCalls[j].booking # b
    /\ CancelRead(b)

\* three calls without a key for the event with two seats, with the payment
\* callback and with Cancel calls taken step by step, one call per booking
ConsumeCall == Len(creates) < MaxJoin /\ \E S \in SeatLists : CreateBegin("e1", NoKey, S)

ConsumeNext ==
    \/ ConsumeCall
    \/ \E i \in 1..Len(creates) : CreateReserve(i)
    \/ \E i \in 1..Len(creates) : CreateInsert(i)
    \/ \E i \in 1..Len(creates) : CreateWaitlistRead(i)
    \/ \E i \in 1..Len(creates) : CreateWaitlistInsert(i)
    \/ \E b \in BookingIds : ProcessBookingPayment(b)
    \/ \E b \in BookingIds : SerialCancelRead(b)
    \/ \E k \in 1..Len(cancelCalls) : CancelWrite(k)
    \/ \E k \in 1..Len(cancelCalls) : CancelPromote(k)

ConsumeSpec == Init /\ [][ConsumeNext]_vars

\* ------------------------------------------- the timeout task, step by step
\* scheduleBookingTimeout after the sleep and HandleBookingTimeout up to its
\* check: the record is read, then GetByID; a booking that is not pending
\* ends the task
TimeoutCheck(b) ==
    /\ b \in BookingIds
    /\ timeoutTask[b] = "sleeping"
    /\ GetBooking(timeoutRec, b) # "processed"
    /\ IF bookings[b].status = "pending"
       THEN /\ timeoutTask' = [timeoutTask EXCEPT ![b] = "cancelling"]
            /\ UNCHANGED timeoutRec
       ELSE /\ timeoutTask' = [timeoutTask EXCEPT ![b] = "done"]
            /\ timeoutRec' = [timeoutRec EXCEPT ![b] = "absent"]
    /\ UNCHANGED <<pool, tokens, reserved, eventCapacity, bookings, seats, waitlist, creates, response,
                   finalizeMsg, reconRuns, reconFixes, payCalls, cancelCalls>>

\* CancelBookingTx called by HandleBookingTimeout, up to its SELECT
TimeoutCancelRead(b) ==
    /\ b \in BookingIds
    /\ timeoutTask[b] = "cancelling"
    /\ timeoutTask' = [timeoutTask EXCEPT
           ![b] = IF bookings[b].status = "booked" THEN "tx_was_booked" ELSE "tx"]
    /\ UNCHANGED <<pool, tokens, reserved, eventCapacity, bookings, seats, waitlist, creates, response,
                   finalizeMsg, timeoutRec, reconRuns, reconFixes, payCalls, cancelCalls>>

\* the rest of CancelBookingTx, the attempt to promote the next waitlist
\* entry, and DeleteBooking
TimeoutCancelWrite(b) ==
    /\ b \in BookingIds
    /\ timeoutTask[b] \in {"tx", "tx_was_booked"}
    /\ LET e == bookings[b].event
           next == NextActive(waitlist, e)
           cancelled == CancelRow(bookings, b)
       IN /\ bookings' = IF next = {} THEN cancelled
                         ELSE CreatePending(cancelled, PromotedUserOnTimeout(CHOOSE w \in next : TRUE),
                                            e, NoKey, bookings[b].seats).rows
          /\ IF timeoutTask[b] = "tx_was_booked"
             THEN /\ reserved' = [reserved EXCEPT ![e] = @ - 1]
                  /\ seats' = CancelSeats(seats, e, bookings[b].seats)
             ELSE UNCHANGED <<reserved, seats>>
    /\ Len(bookings') = Len(bookings)
    /\ timeoutRec' = [timeoutRec EXCEPT ![b] = "absent"]
    /\ timeoutTask' = [timeoutTask EXCEPT ![b] = "done"]
    /\ UNCHANGED <<pool, tokens, eventCapacity, waitlist, creates, response,
                   finalizeMsg, reconRuns, reconFixes, payCalls, cancelCalls>>

\* the booking intake for the event with the single seat, the worker, and the
\* payment callback next to the timeout task taken step by step
TimeoutRaceNext ==
    \/ RaceCall
    \/ \E i \in 1..Len(creates) : CreateReserve(i)
    \/ \E i \in 1..Len(creates) : CreateInsert(i)
    \/ \E i \in 1..Len(creates) : CreateWaitlistRead(i)
    \/ \E i \in 1..Len(creates) : CreateWaitlistInsert(i)
    \/ \E b \in BookingIds : HandleBookingFinalization(b)
    \/ \E b \in BookingIds : ProcessBookingPayment(b)
    \/ \E b \in BookingIds : TimeoutCheck(b)
    \/ \E b \in BookingIds : TimeoutCancelRead(b)
    \/ \E b \in BookingIds : TimeoutCancelWrite(b)

TimeoutRaceSpec == Init /\ [][TimeoutRaceNext]_vars

\* a call without a key for the seat of the event with the single seat
SeatCall == Len(creates) < MaxCreate /\ CreateBegin("e2", NoKey, <<"s1">>)

\* the booking intake for the event with the single seat, the payment
\* callback, Cancel calls taken step by step, and the worker with the timeout
\* task taken step by step
PromoteRaceNext ==
    \/ SeatCall
    \/ \E i \in 1..Len(creates) : CreateReserve(i)
    \/ \E i \in 1..Len(creates) : CreateInsert(i)
    \/ \E i \in 1..Len(creates) : CreateWaitlistRead(i)
    \/ \E i \in 1..Len(creates) : CreateWaitlistInsert(i)
    \/ \E b \in BookingIds : ProcessBookingPayment(b)
    \/ \E b \in BookingIds : CancelRead(b)
    \/ \E k \in 1..Len(cancelCalls) : CancelWrite(k)
    \/ \E k \in 1..Len(cancelCalls) : CancelPromote(k)
    \/ \E b \in BookingIds : HandleBookingFinalization(b)
    \/ \E b \in BookingIds : TimeoutCheck(b)
    \/ \E b \in BookingIds : TimeoutCancelRead(b)
    \/ \E b \in BookingIds : TimeoutCancelWrite(b)

PromoteRaceSpec == Init /\ [][PromoteRaceNext]_vars

\* the booking intake with the payment callbacks and the Cancel calls taken
\* step by step
RaceNext ==
    \/ RaceCall
    \/ \E i \in 1..Len(creates) : CreateReserve(i)
    \/ \E i \in 1..Len(creates) : CreateInsert(i)
    \/ \E i \in 1..Len(creates) : CreateWaitlistRead(i)
    \/ \E i \in 1..Len(creates) : CreateWaitlistInsert(i)
    \/ \E b \in BookingIds : PaymentRead(b)
    \/ \E k \in 1..Len(payCalls) : PaymentWrite(k)
    \/ \E b \in BookingIds : CancelRead(b)
    \/ \E k \in 1..Len(cancelCalls) : CancelWrite(k)
    \/ \E k \in 1..Len(cancelCalls) : CancelPromote(k)

RaceSpec == Init /\ [][RaceNext]_vars

\* ------------------------------------------------------------- properties
Booked(e) == {b \in BookingIds : bookings[b].event = e /\ bookings[b].status = "booked"}

\* the seats of the event's bookings in status pending or booked
HeldSeats(e) ==
    SeqSum([b \in BookingIds |->
        IF bookings[b].event = e /\ bookings[b].status \in {"pending", "booked"}
        THEN Len(bookings[b].seats) ELSE 0])

\* C1: for every event the number of bookings in status booked is at most
\* the capacity of the event
BookedWithinCapacity == \A e \in Events : Cardinality(Booked(e)) <= Capacity(e)

\* C2: no seat label of an event is in the seat lists of two distinct booked
\* bookings of that event
NoSeatBookedTwice ==
    \A e \in Events : \A b1, b2 \in Booked(e) :
        b1 # b2 => Range(bookings[b1].seats) \cap Range(bookings[b2].seats) \cap EventSeats(e) = {}

\* C3: while no Create call is between its Reserve and its ledger insert,
\* Remaining is at most the capacity minus the seats of the pending and booked
\* bookings of the event
RemainingWithinUnadmitted ==
    (\A i \in 1..Len(creates) : creates[i].pc # "insert")
        => \A e \in Events : Remaining(tokens, e) <= Capacity(e) - HeldSeats(e)

UniqueEventKey ==
    \A b1, b2 \in BookingIds :
        (bookings[b1].key # NoKey /\ bookings[b1].event = bookings[b2].event
            /\ bookings[b1].key = bookings[b2].key) => b1 = b2

\* a second insert of a pair that a booking carries has been refused
DuplicateKeyRefused ==
    /\ response.code = 500
    /\ response.key # NoKey
    /\ \E b \in BookingIds : bookings[b].event = response.event /\ bookings[b].key = response.key

\* C4: under the worker's scheduling every pending booking eventually leaves
\* status pending (time is not in the model: the grace period of a booking
\* that stays pending for ever has elapsed)
PendingEventuallyCancelled ==
    \A b \in 1..MaxCreate :
        (b \in BookingIds /\ bookings[b].status = "pending")
            ~> (b \in BookingIds /\ bookings[b].status # "pending")

\* call i takes its Reserve step
ReserveStep(i) == creates[i].pc = "reserve" /\ creates'[i].pc # "reserve"

\* calls i and j of two users are both about to reserve what is left of the
\* same event
LastSeat(i, j) ==
    /\ i # j
    /\ creates[i].pc = "reserve" /\ creates[j].pc = "reserve"
    /\ creates[i].user # creates[j].user
    /\ creates[i].event = creates[j].event
    /\ Len(creates[i].seats) >= 1
    /\ Len(creates[i].seats) = Remaining(tokens, creates[i].event)
    /\ Len(creates[j].seats) = Remaining(tokens, creates[i].event)

\* what a Reserve step of call i does to the counter and to the call
ReserveOutcome(i) ==
    LET e == creates[i].event
        n == Len(creates[i].seats)
    IN IF Remaining(tokens, e) >= n
       THEN /\ creates'[i].pc = "insert"
            /\ Remaining(tokens', e) = Remaining(tokens, e) - n
            /\ \A f \in Events \ {e} : tokens'[f] = tokens[f]
       ELSE /\ creates'[i].pc = "waitlist"
            /\ tokens' = tokens

\* what the later steps of a call answer
AnswerOutcome(i) ==
    /\ (creates[i].pc = "insert" /\ creates'[i].pc = "done")
          => (response'.status = "pending" \/ response'.code = 500)
    /\ (creates[i].pc = "waitlist" /\ creates'[i].pc # "waitlist")
          => /\ creates'[i].pc = "waitlist_insert"
             /\ (ActiveEntries(waitlist, creates[i].event) = {} => creates'[i].position = 1)
    /\ (creates[i].pc = "waitlist_insert" /\ creates'[i].pc = "done")
          => /\ response'.status = "waitlisted"
             /\ response'.position = creates[i].position

\* C5: a Reserve step admits and decrements by n exactly when Remaining >= n,
\* else refuses and leaves the counter alone; when two users are about to
\* reserve the last seats, the first Reserve step admits its call and leaves
\* too little for the other; an admitted call answers pending, a refused one
\* answers waitlisted with the position it read, 1 on an empty waitlist
ReserveIsAtomic ==
    [][\A i \in 1..Len(creates) :
          /\ ReserveStep(i) => ReserveOutcome(i)
          /\ \A j \in 1..Len(creates) :
                (LastSeat(i, j) /\ ReserveStep(i))
                    => /\ creates'[i].pc = "insert"
                       /\ creates'[j].pc = "reserve"
                       /\ Remaining(tokens', creates[j].event) < Len(creates[j].seats)
          /\ AnswerOutcome(i)]_vars

\* of two users who raced for the last seat one has a pending booking and the
\* other was answered waitlisted at position 1
LastSeatRaceDecided ==
    /\ Len(creates) = 2
    /\ \A i \in 1..2 : creates[i].pc = "done"
    /\ response.status = "waitlisted" /\ response.position = 1 /\ response.event = "e2"
    /\ Len(bookings) = 1
    /\ bookings[1].event = "e2" /\ bookings[1].status = "pending" /\ bookings[1].seats = <<"s1">>
    /\ Len(waitlist) = 1 /\ waitlist[1].user # bookings[1].user
    /\ Remaining(tokens, "e2") = 0
    /\ reconRuns = 0

\* the step in which a call is answered from the idempotency check
ReplayStep ==
    /\ Len(creates') = Len(creates) + 1
    /\ creates'[Len(creates')].pc = "done"
    /\ response'.code = 200

\* C8: a call with the event, user and key of a booking (its seat list plays
\* no part in the check) is answered with the identity of that booking, and
\* leaves the bookings and the counter as they are
ReplayReturnsSameBooking ==
    [][\A b \in BookingIds :
          (/\ ReplayStep
           /\ bookings[b].key # NoKey
           /\ bookings[b].key = response'.key
           /\ bookings[b].event = response'.event
           /\ bookings[b].user = Caller(Len(creates')))
              => /\ response'.booking_id = b
                 /\ bookings' = bookings
                 /\ tokens' = tokens]_vars

\* C9: a reconciler run leaves Remaining = capacity - reserved_count for every
\* event with an event_capacity row, counts a fix exactly for the events whose
\* counter differed, and leaves nothing for a next run to fix
ReconcileReachesFixpoint ==
    [][Reconcile =>
          /\ \A e \in Events :
                eventCapacity'[e].present => Remaining(tokens', e) = Desired(eventCapacity', e)
          /\ reconFixes' = Cardinality({e \in Events : Remaining(tokens, e) # Desired(eventCapacity', e)})
          /\ ToFix(tokens', eventCapacity') = {}]_vars

\* C10: after the only call was admitted for e1, its booking finalized and
\* then cancelled, with no reconciler run, Remaining and every seat of e1 are
\* as they were before the call
RoundTripRestores ==
    (/\ Len(creates) = 1 /\ creates[1].pc = "done"
     /\ Len(bookings) = 1
     /\ bookings[1].event = "e1"
     /\ bookings[1].status = "cancelled"
     /\ bookings[1].payment_status # "pending"
     /\ reconRuns = 0)
        => /\ Remaining(tokens, "e1") = Capacity("e1")
           /\ \A l \in EventSeats("e1") :
                 seats["e1"][l] = [status |-> "available", held_by_booking |-> 0]

\* the seats the Reserve of this step admitted for event e
StepAdmitted(e) ==
    LET A == {i \in 1..Len(creates) :
                 ReserveStep(i) /\ creates[i].event = e /\ creates'[i].pc = "insert"}
    IN IF A = {} THEN 0 ELSE Len(creates[CHOOSE i \in A : TRUE].seats)

\* the seats the Release of this step returned for event e: Cancel calls
\* Release when CancelBookingTx returned wasBooked
StepReleased(e) ==
    LET B == {b \in BookingIds : /\ bookings[b].event = e
                                 /\ bookings[b].status = "booked"
                                 /\ bookings'[b].status = "cancelled"
                                 /\ cancelCalls' = cancelCalls}
        K == {k \in 1..Len(cancelCalls) : /\ cancelCalls[k].wasBooked
                                          /\ bookings[cancelCalls[k].booking].event = e
                                          /\ CancelWrite(k)}
    IN IF K # {} THEN SeatCount(cancelCalls[CHOOSE k \in K : TRUE].seats)
       ELSE IF B # {} THEN SeatCount(bookings[CHOOSE b \in B : TRUE].seats)
       ELSE 0

\* what a reconciler run of this step added to the counter of event e
StepAdjusted(e) == IF Reconcile THEN Remaining(tokens', e) - Remaining(tokens, e) ELSE 0

\* C11: a counter that was initialized starts at the capacity, and every step
\* changes Remaining by what it released and adjusted minus what it admitted,
\* so that admitted - released - adjustments = capacity - Remaining throughout
CounterLedgerBalanced ==
    /\ \A e \in Events : tokens[e].present => Remaining(tokens, e) = Capacity(e)
    /\ [][\A e \in Events :
             Remaining(tokens', e) - Remaining(tokens, e)
                 = StepReleased(e) + StepAdjusted(e) - StepAdmitted(e)]_vars

\* the counter of e1 has seen an admission, a release and a reconciler run
LedgerExercised ==
    /\ reconRuns = 1 /\ reconFixes >= 1
    /\ \E b \in BookingIds : /\ bookings[b].event = "e1"
                             /\ bookings[b].status = "cancelled"
                             /\ bookings[b].payment_status = "paid"
                             /\ bookings[b].seats = <<"s1", "s2">>

\* C12: Remaining lies between 0 and the capacity of the event
RemainingInRange ==
    \A e \in Events : Remaining(tokens, e) >= 0 /\ Remaining(tokens, e) <= Capacity(e)

\* C13: the payment callback that turns a pending booking into a booked one
\* leaves it paid, its seats booked, and its timeout record processed
PaymentMarksProcessed ==
    [][\A b \in BookingIds :
          (bookings[b].status = "pending" /\ bookings'[b].status = "booked")
              => /\ bookings'[b].payment_status = "paid"
                 /\ \A l \in Range(bookings'[b].seats) \cap EventSeats(bookings[b].event) :
                       seats'[bookings[b].event][l] = [status |-> "booked", held_by_booking |-> b]
                 /\ timeoutRec'[b] = "processed"]_vars

\* C14: a payment callback that reaches FinalizeBooking for a booking that is
\* no longer pending changes neither the booking beyond the payment status it
\* has just written, nor a seat, nor the reserved counter of the event
FinalizeRefusesNonPending ==
    [][\A k \in 1..Len(payCalls) :
          (PaymentWrite(k) /\ bookings[payCalls[k]].status # "pending")
              => /\ bookings' = UpdatePaymentStatus(bookings, payCalls[k], "paid")
                 /\ seats' = seats
                 /\ reserved' = reserved]_vars

\* C15: the transaction of a Cancel call holds wasBooked exactly when the
\* status it replaces is booked, and decrements the reserved counter of the
\* event exactly then
CancelDecidesUnderLock ==
    [][\A k \in 1..Len(cancelCalls) :
          CancelWrite(k) =>
              LET b == cancelCalls[k].booking
                  e == bookings[b].event
                  replaced == bookings[b].status
              IN /\ cancelCalls[k].wasBooked <=> replaced = "booked"
                 /\ reserved'[e] = reserved[e] - (IF replaced = "booked" THEN 1 ELSE 0)
                 /\ replaced # "booked" => seats' = seats]_vars

\* C16: a Cancel call that replaces status booked raises Remaining by the seat
\* count of the booking and leaves its seats available; one that replaces
\* another status releases nothing and promotes nobody; and the promotion
\* appends one pending booking for the waitlisted user over the freed seats,
\* with its finalize message
CancelReleasesAndPromotes ==
    [][\A k \in 1..Len(cancelCalls) :
          /\ CancelWrite(k) =>
                LET b == cancelCalls[k].booking
                    e == bookings[b].event
                IN IF bookings[b].status = "booked"
                   THEN /\ Remaining(tokens', e) = Remaining(tokens, e) + SeatCount(bookings[b].seats)
                        /\ \A l \in Range(bookings[b].seats) \cap EventSeats(e) :
                              seats'[e][l] = [status |-> "available", held_by_booking |-> 0]
                        /\ NextActive(waitlist, e) # {} =>
                              /\ Len(cancelCalls') = Len(cancelCalls)
                              /\ cancelCalls'[k].entry \in NextActive(waitlist, e)
                   ELSE /\ tokens' = tokens
                        /\ Len(cancelCalls') < Len(cancelCalls)
          /\ CancelPromote(k) =>
                /\ Len(bookings') = Len(bookings) + 1
                /\ bookings'[Len(bookings')] =
                      [user |-> cancelCalls[k].user, event |-> bookings[cancelCalls[k].booking].event,
                       status |-> "pending", seats |-> cancelCalls[k].seats,
                       key |-> NoKey, payment_status |-> "pending"]
                /\ Len(finalizeMsg') = Len(bookings')]_vars

\* C17: when the timeout of a pending booking is handled while the event has
\* an active waitlist entry, the booking becomes cancelled and a pending
\* booking over the same seats is appended for the user of the entry with the
\* smallest position
TimeoutPromotesWaitlisted ==
    [][\A b \in BookingIds :
          (/\ TimeoutFire(b)
           /\ bookings[b].status = "pending"
           /\ NextActive(waitlist, bookings[b].event) # {})
              => /\ bookings'[b].status = "cancelled"
                 /\ Len(bookings') = Len(bookings) + 1
                 /\ \E w \in NextActive(waitlist, bookings[b].event) :
                       /\ bookings'[Len(bookings')].user = waitlist[w].user
                       /\ bookings'[Len(bookings')].status = "pending"
                       /\ bookings'[Len(bookings')].seats = bookings[b].seats]_vars

\* C18: the entries of one event that have not opted out have pairwise
\* distinct positions
ActivePositionsDistinct ==
    \A e \in Events : \A i, j \in ActiveEntries(waitlist, e) :
        i # j => waitlist[i].position # waitlist[j].position

\* C19: a promotion takes the entry that joined first among the entries of
\* the event that have not opted out: when an entry is removed, no entry of
\* its event that is still active was inserted before it
PromotionIsFifo ==
    [][\A w \in 1..Len(waitlist) :
          (w \in ActiveEntries(waitlist, waitlist[w].event) /\ waitlist'[w].removed)
              => \A j \in ActiveEntries(waitlist, waitlist[w].event) : j >= w]_vars

\* C20: a promotion consumes its waitlist entry: the entry a Cancel call
\* promotes is still on the waitlist of the event when the pending booking is
\* created, and is not returned by NextActive afterwards
PromotionConsumesEntry ==
    [][\A k \in 1..Len(cancelCalls) :
          CancelPromote(k) =>
              LET e == bookings[cancelCalls[k].booking].event
              IN /\ cancelCalls[k].entry \in ActiveEntries(waitlist, e)
                 /\ cancelCalls[k].entry \notin NextActive(waitlist', e)]_vars

\* C21: an insert for an event and key that already have a booking adds no
\* row and hands back the existing booking without an error
CreatePendingReturnsExisting ==
    [][\A i \in 1..Len(creates) :
          (CreateInsert(i) /\ UniqueViolation(bookings, creates[i].event, creates[i].key))
              => /\ bookings' = bookings
                 /\ response'.code # 500
                 /\ response'.booking_id \in BookingIds
                 /\ bookings[response'.booking_id].event = creates[i].event
                 /\ bookings[response'.booking_id].key = creates[i].key]_vars

\* C22: a Create call goes on to Reserve only with a seat list that is neither
\* empty nor longer than the ticket limit of the event; any other call is
\* answered by the validation and leaves every store as it was
CreateValidatesSeatList ==
    [][Len(creates') = Len(creates) + 1 =>
          LET c == creates'[Len(creates')]
          IN IF c.pc = "reserve"
             THEN Len(c.seats) >= 1 /\ Len(c.seats) <= MaximumTicketsPerBooking(c.event)
             ELSE /\ c = Done
                  /\ response'.code \in {200, 400}
                  /\ UNCHANGED <<tokens, bookings, waitlist>>]_vars

\* C23: a fetched message is acknowledged after it has been handled, and the
\* failure of the notification, which is transient, leaves it on the stream
\* unacknowledged and out of the dead-letter topic
TransientFailureIsRedelivered ==
    [][\A b \in BookingIds :
          (HandleBookingFinalization(b) /\ finalizeMsg'[b] # "committed")
              => finalizeMsg'[b] = "queued"]_vars

\* C24: a booking that is pending when the worker process stops during its
\* grace window eventually leaves status pending after the restart
TimeoutSurvivesRestart ==
    \A b \in 1..MaxCreate :
        (b \in BookingIds /\ timeoutTask[b] = "lost" /\ bookings[b].status = "pending")
            ~> (b \in BookingIds /\ bookings[b].status # "pending")

\* C25: the timeout task of a booking that has been paid leaves the booking
\* booked, the seats as they are and the reserved counter of the event
TimeoutSparesPaid ==
    [][\A b \in BookingIds :
          (bookings[b].status = "booked" /\ (TimeoutCheck(b) \/ TimeoutCancelRead(b) \/ TimeoutCancelWrite(b)))
              => /\ bookings'[b].status = "booked"
                 /\ seats' = seats
                 /\ reserved' = reserved]_vars

\* C26: a seat that is held or booked refers to a booking of its event whose
\* status is pending or booked
HeldSeatHasLiveBooking ==
    \A e \in Events : \A l \in EventSeats(e) :
        seats[e][l].status \in {"held", "booked"} =>
            /\ seats[e][l].held_by_booking \in BookingIds
            /\ bookings[seats[e][l].held_by_booking].event = e
            /\ bookings[seats[e][l].held_by_booking].status \in {"pending", "booked"}

\* C27: when the timeout of a pending booking is handled, the booking becomes
\* cancelled and Remaining of its event increases by the number of its seats
TimeoutRestoresTokens ==
    [][\A b \in BookingIds :
          (TimeoutFire(b) /\ bookings[b].status = "pending")
              => /\ bookings'[b].status = "cancelled"
                 /\ Remaining(tokens', bookings[b].event)
                       = Remaining(tokens, bookings[b].event) + Len(bookings[b].seats)]_vars

\* C28: a timeout task that starts to sleep has set its record to processing;
\* when it wakes up and reads processed it leaves the bookings alone,
\* otherwise, a missing record included, it cancels a booking that is still
\* pending; either way the record is absent when the task has ended
TimeoutTaskFollowsProtocol ==
    [][\A b \in BookingIds :
          /\ (timeoutTask[b] = "none" /\ timeoutTask'[b] = "sleeping")
                => timeoutRec'[b] = "processing"
          /\ TimeoutFire(b) =>
                /\ IF timeoutRec[b] = "processed"
                   THEN bookings' = bookings
                   ELSE bookings[b].status = "pending" => bookings'[b].status = "cancelled"
                /\ timeoutTask'[b] = "done"
                /\ timeoutRec'[b] = "absent"]_vars

\* one task has ended on a record that read processed, its booking still
\* pending, and another has cancelled its booking
BothTaskBranchesTaken ==
    /\ \E b \in BookingIds : /\ timeoutTask[b] = "done"
                             /\ timeoutRec[b] = "absent"
                             /\ bookings[b].status = "pending"
    /\ \E b \in BookingIds : /\ timeoutTask[b] = "done"
                             /\ timeoutRec[b] = "absent"
                             /\ bookings[b].status = "cancelled"

\* C29: the worker acknowledges the finalize message of a booking that is no
\* longer pending and stops there: no timeout task is started and the
\* message does not go to the dead-letter topic
StaleMessageOnlyAcknowledged ==
    [][\A b \in BookingIds :
          (HandleBookingFinalization(b) /\ bookings[b].status # "pending")
              => /\ finalizeMsg'[b] = "committed"
                 /\ timeoutTask'[b] = timeoutTask[b]
                 /\ timeoutRec'[b] = timeoutRec[b]]_vars

\* C30: a seat changes its status only from available to held, from held to
\* booked or from held to available
SeatEdgesOnly ==
    [][\A e \in Events : \A l \in EventSeats(e) :
          seats'[e][l].status # seats[e][l].status
              => <<seats[e][l].status, seats'[e][l].status>>
                     \in {<<"available", "held">>, <<"held", "booked">>, <<"held", "available">>}]_vars

\* C31: a HoldSeats call for booking b over the labels L moves every seat of
\* L from available to held by b or changes no seat, and a BookSeats call for
\* b changes only seats that are held by b
SeatBatchAllOrNothing ==
    [][\A e \in Events, L \in SeatLists, b \in 1..MaxHolder :
          /\ HoldSeatsCall(e, L, b) =>
                \/ seats' = seats
                \/ \A l \in Range(L) \cap EventSeats(e) :
                      /\ seats[e][l].status = "available"
                      /\ seats'[e][l] = [status |-> "held", held_by_booking |-> b]
          /\ BookSeatsCall(e, L, b) =>
                \A l \in EventSeats(e) :
                    seats'[e][l] # seats[e][l]
                        => seats[e][l] = [status |-> "held", held_by_booking |-> b]]_vars

\* C32: every booking in status pending or booked has a seat list that is
\* not empty and holds labels of the seat set of its event only
LiveBookingHasEventSeats ==
    \A b \in BookingIds :
        bookings[b].status \in {"pending", "booked"}
            => /\ bookings[b].seats # <<>>
               /\ Range(bookings[b].seats) \subseteq EventSeats(bookings[b].event)

\* C33: the idempotency check is scoped to the event: a call is answered
\* from the check only with a booking of the event it names, so a key that
\* was used for another event does not make the call a replay
ReplayGuardScopedToEvent ==
    [][ReplayStep =>
          /\ response'.booking_id \in BookingIds
          /\ bookings[response'.booking_id].key = response'.key
          /\ bookings[response'.booking_id].event = response'.event]_vars

\* C34: at most MaxWorkers messages are in a handler at a time, the slots
\* taken are those of the running handlers alone (a sleeping timeout task
\* holds none), and a fetched message waits for a slot only while MaxWorkers
\* handlers run
PoolBoundedWaitsHoldNoSlot ==
    /\ Cardinality(Handling(finalizeMsg)) <= MaxWorkers
    /\ pool.run # "exited" => pool.sem = Cardinality(Handling(finalizeMsg))
    /\ \A b \in BookingIds :
          (/\ pool.run = "acquire"
           /\ finalizeMsg[b] = "fetched"
           /\ Cardinality(Handling(finalizeMsg)) < MaxWorkers) => ENABLED Acquire(b)

\* the pool is full while a timeout wait is outstanding
PoolFullBesideWait ==
    /\ Cardinality(Handling(finalizeMsg)) = MaxWorkers
    /\ \E b \in BookingIds : timeoutTask[b] = "sleeping"

\* C35: once the context is cancelled no message is fetched, and Run has
\* returned, and the process exits, only when no handler is running (the
\* code has no timer that would end the wait for the handlers)
ShutdownDrainsHandlers ==
    [][/\ pool.ctx = "cancelled" => \A b \in BookingIds : ~Fetch(b)
       /\ pool'.run \in {"returned", "exited"} /\ pool.run # "exited"
              => Handling(finalizeMsg) = {}]_vars

\* C36: the reserved_count of an event_capacity row, from which the
\* reconciler computes the desired counter value, equals the reserved
\* counter of the event that FinalizeBooking and CancelBookingTx maintain
ReservedCountFollowsReserved ==
    \A e \in Events :
        eventCapacity[e].present => eventCapacity[e].reserved_count = reserved[e]

\* C37: the reserved counter of an event counts seats: the finalization of a
\* booking of n seats raises it by n, the cancellation of a booked booking of
\* n seats lowers it by n
ReservedCountsSeats ==
    [][\A b \in BookingIds :
          LET e == bookings[b].event IN
          /\ ProcessBookingPayment(b)
                => reserved'[e] = reserved[e] + Len(bookings'[b].seats)
          /\ (Cancel(b) /\ bookings[b].status = "booked")
                => reserved'[e] = reserved[e] - Len(bookings[b].seats)]_vars

\* C38: an admitted Reserve of a Create call ends in a pending booking or in
\* a Release of the same count: when the insert of the booking fails, the
\* call is answered with an error and Remaining is back at its value before
\* the Reserve
AdmissionIsCompensated ==
    [][\A i \in 1..Len(creates) :
          CreateInsert(i) =>
             LET c == creates[i] IN
             \/ /\ Len(bookings') = Len(bookings) + 1
                /\ bookings'[Len(bookings')].status = "pending"
                /\ bookings'[Len(bookings')].event = c.event
             \/ /\ bookings' = bookings
                /\ response'.code = 500
                /\ Remaining(tokens', c.event) = Remaining(tokens, c.event) + Len(c.seats)]_vars


\* C39: of two concurrent calls with one event and one key, the one that
\* inserts second finds the booking of the first: the pair has exactly one
\* booking, the call is answered with that booking and without a server
\* error, and Remaining has gone down for one of the two calls only
SameKeyRaceYieldsOneBooking ==
    [][\A j \in 1..Len(creates) :
          (CreateInsert(j) /\ UniqueViolation(bookings, creates[j].event, creates[j].key)) =>
             LET c == creates[j]
                 made == {b \in 1..Len(bookings') :
                             bookings'[b].event = c.event /\ bookings'[b].key = c.key}
             IN /\ Cardinality(made) = 1
                /\ response'.code \in {200, 202}
                /\ response'.booking_id \in made
                /\ Remaining(tokens', c.event) = Remaining(tokens, c.event) + Len(c.seats)]_vars

====
